---------------------------- MODULE Spec2Model ----------------------------
(***************************************************************************)
(* The one-dimensional Kalman filter (class kalman_filter_1d) and the      *)
(* simulation loop of main() that drives it.                               *)
(*                                                                         *)
(* A C++ double is modelled as an exact rational number n/d in lowest      *)
(* terms, extended with the IEEE-754 special values +infinity, -infinity   *)
(* and NaN that a division by zero produces.  Rounding of the mantissa is  *)
(* not modelled: the properties below are statements about the values up   *)
(* to floating-point tolerance.  The inputs never contain a negative zero, *)
(* and no operation of the filter produces one in a divisor, so a zero     *)
(* divisor is always +0.                                                   *)
(***************************************************************************)
EXTENDS Integers, Sequences, FiniteSets, TLC

VARIABLES
    myFilter,           \* the kalman_filter_1d object: its four fields
    init_sigma,         \* history: the init_sigma the filter was constructed with
    call,               \* history: last method called on the filter, its
                        \*   argument, and mu / sigma as they were before it
    npredict,           \* history: number of predict() calls so far
    ncorrect,           \* history: number of correct_by_measurement() calls
    pc,                 \* position of main(): "client" when the filter is
                        \*   driven by an arbitrary caller instead of main()
    mu_true,            \* main(): the variable holding the ground truth state
    mu_naive_est,       \* main(): the naive estimate
    z,                  \* main(): the simulated sensor value of this step
    simulation_step,    \* main(): loop counter
    error_measurement,  \* main(): running average |z - truth|
    error_naive,        \* main(): running average |naive - truth|
    error_kf,           \* main(): running average |filter estimate - truth|
    abs_errors,         \* history: the absolute errors of every step so far
    executed            \* history: times the per-step algorithm has run

vars == << myFilter, init_sigma, call, npredict, ncorrect, pc, mu_true,
           mu_naive_est, z, simulation_step, error_measurement, error_naive,
           error_kf, abs_errors, executed >>

filterVars == << myFilter, init_sigma, call, npredict, ncorrect >>

mainVars == << pc, mu_true, mu_naive_est, z, simulation_step,
               error_measurement, error_naive, error_kf, abs_errors,
               executed >>

---------------------------------------------------------------------------
(* Bounds of the model *)

\* calls an arbitrary client makes on one filter object
MaxCalls == 3

\* iterations of the while loop of main(); the program runs 100000
SimulationLimit == 2

---------------------------------------------------------------------------
(* double arithmetic *)

AbsInt[i \in Int] == IF i < 0 THEN -i ELSE i

SignInt[i \in Int] == IF i < 0 THEN -1 ELSE 1

GCD[a \in Nat, b \in Nat] == IF b = 0 THEN a ELSE GCD[b, a % b]

\* the double with the value n/d, d # 0
R[n \in Int, d \in Int] ==
    LET g == GCD[AbsInt[n], AbsInt[d]]
    IN  [k |-> "fin", n |-> SignInt[d] * (n \div g), d |-> AbsInt[d] \div g]

FromInt[i \in Int] == R[i, 1]

Inf[s \in Int] == [k |-> "inf", n |-> s, d |-> 1]

NaN == [k |-> "nan", n |-> 0, d |-> 1]

IsFinite(a) == a.k = "fin"

\* the values of a double
Double == [k : {"fin", "inf", "nan"}, n : Int, d : Nat]

\* a + b
DAdd[a \in Double, b \in Double] ==
    CASE a.k = "nan" \/ b.k = "nan" -> NaN
      [] a.k = "inf" /\ b.k = "inf" -> IF a.n = b.n THEN a ELSE NaN
      [] a.k = "inf" -> a
      [] b.k = "inf" -> b
      [] OTHER ->
            LET g == GCD[a.d, b.d]
            IN  R[a.n * (b.d \div g) + b.n * (a.d \div g),
                  (a.d \div g) * b.d]

\* a * b
DMul[a \in Double, b \in Double] ==
    CASE a.k = "nan" \/ b.k = "nan" -> NaN
      [] a.k = "inf" \/ b.k = "inf" ->
            IF a.n = 0 \/ b.n = 0 THEN NaN
            ELSE Inf[SignInt[a.n] * SignInt[b.n]]
      [] OTHER ->
            LET g1 == GCD[AbsInt[a.n], b.d]
                g2 == GCD[AbsInt[b.n], a.d]
            IN  R[(a.n \div g1) * (b.n \div g2),
                  (a.d \div g2) * (b.d \div g1)]

\* a / b: x/0 is an infinity, 0/0 and inf/inf are NaN, x/inf is 0
DDiv[a \in Double, b \in Double] ==
    CASE a.k = "nan" \/ b.k = "nan" -> NaN
      [] a.k = "inf" /\ b.k = "inf" -> NaN
      [] a.k = "inf" -> Inf[a.n * SignInt[b.n]]
      [] b.k = "inf" -> FromInt[0]
      [] b.n = 0 -> IF a.n = 0 THEN NaN ELSE Inf[SignInt[a.n]]
      [] OTHER -> DMul[a, R[b.d, b.n]]

\* a - b
DSub[a \in Double, b \in Double] == DAdd[a, [b EXCEPT !.n = -b.n]]

\* abs(a)
DAbs[a \in Double] == [a EXCEPT !.n = AbsInt[a.n]]

---------------------------------------------------------------------------
(* class kalman_filter_1d *)

kalman_filter_1d(init_mu, init_sig, pn, mn) ==
    [mu |-> init_mu, sigma |-> init_sig,
     process_noise |-> pn, measurement_noise |-> mn]

\* predict with the control subtracted instead of added
predict_control_subtracted(f, u) ==
    [f EXCEPT !.mu = DSub[f.mu, u],
              !.sigma = DAdd[f.sigma, f.process_noise]]

\* predict with the process noise subtracted instead of added
predict_noise_subtracted(f, u) ==
    [f EXCEPT !.mu = DAdd[f.mu, u],
              !.sigma = DSub[f.sigma, f.process_noise]]

\* predict that leaves the uncertainty as it was
predict_noise_forgotten(f, u) ==
    [f EXCEPT !.mu = DAdd[f.mu, u]]

predict(f, u) ==
    LET mu1    == DAdd[f.mu, u]
        sigma1 == DAdd[f.sigma, f.process_noise]
    IN  [f EXCEPT !.mu = mu1, !.sigma = sigma1]

\* correct_by_measurement with the two assignments in the other order: the
\* estimate is then fused with the already corrected uncertainty
correct_sigma_first(f, zz) ==
    LET sigma1 == DDiv[FromInt[1],
                       DAdd[DDiv[FromInt[1], f.measurement_noise],
                            DDiv[FromInt[1], f.sigma]]]
        mu1 == DDiv[DAdd[DMul[f.measurement_noise, f.mu], DMul[sigma1, zz]],
                    DAdd[f.measurement_noise, sigma1]]
    IN  [f EXCEPT !.mu = mu1, !.sigma = sigma1]

\* correct_by_measurement without the outer reciprocal of the uncertainty
correct_no_reciprocal(f, zz) ==
    LET mu1 == DDiv[DAdd[DMul[f.measurement_noise, f.mu], DMul[f.sigma, zz]],
                    DAdd[f.measurement_noise, f.sigma]]
        sigma1 == DAdd[DDiv[FromInt[1], f.measurement_noise],
                       DDiv[FromInt[1], f.sigma]]
    IN  [f EXCEPT !.mu = mu1, !.sigma = sigma1]

correct_by_measurement(f, zz) ==
    LET mu1 == DDiv[DAdd[DMul[f.measurement_noise, f.mu], DMul[f.sigma, zz]],
                    DAdd[f.measurement_noise, f.sigma]]
        sigma1 == DDiv[FromInt[1],
                       DAdd[DDiv[FromInt[1], f.measurement_noise],
                            DDiv[FromInt[1], f.sigma]]]
    IN  [f EXCEPT !.mu = mu1, !.sigma = sigma1]

get_current_state_estimate(f) == f.mu

get_current_uncertainty(f) == f.sigma

---------------------------------------------------------------------------
(* The filter driven by an arbitrary client: any construction, then any    *)
(* sequence of predict and correct_by_measurement calls.                   *)

InitMu == { FromInt[5], R[-1, 2] }

InitSigma == { FromInt[0], R[3, 4], FromInt[2] }

ProcessNoise == { FromInt[0], FromInt[1] }

MeasurementNoise == { FromInt[-2], FromInt[0], FromInt[2], FromInt[3] }

Controls == { FromInt[3], FromInt[-1] }

Measurements == { FromInt[0], FromInt[4] }

MainIdle ==
    /\ pc = "client"
    /\ mu_true = FromInt[0]
    /\ mu_naive_est = FromInt[0]
    /\ z = FromInt[0]
    /\ simulation_step = 0
    /\ error_measurement = FromInt[0]
    /\ error_naive = FromInt[0]
    /\ error_kf = FromInt[0]
    /\ abs_errors = << >>
    /\ executed = 0

Init ==
    /\ \E m \in InitMu, s \in InitSigma, pn \in ProcessNoise,
          mn \in MeasurementNoise :
          /\ myFilter = kalman_filter_1d(m, s, pn, mn)
          /\ init_sigma = s
          /\ call = [op |-> "new", arg |-> FromInt[0], mu |-> m, sigma |-> s]
    /\ npredict = 0
    /\ ncorrect = 0
    /\ MainIdle

Predict ==
    /\ pc = "client"
    /\ npredict + ncorrect < MaxCalls
    /\ \E u \in Controls :
          /\ myFilter' = predict(myFilter, u)
          /\ call' = [op |-> "predict", arg |-> u,
                      mu |-> myFilter.mu, sigma |-> myFilter.sigma]
    /\ npredict' = npredict + 1
    /\ UNCHANGED << init_sigma, ncorrect >>
    /\ UNCHANGED mainVars

Correct ==
    /\ pc = "client"
    /\ npredict + ncorrect < MaxCalls
    /\ \E m \in Measurements :
          /\ myFilter' = correct_by_measurement(myFilter, m)
          /\ call' = [op |-> "correct", arg |-> m,
                      mu |-> myFilter.mu, sigma |-> myFilter.sigma]
    /\ ncorrect' = ncorrect + 1
    /\ UNCHANGED << init_sigma, npredict >>
    /\ UNCHANGED mainVars

Next == Predict \/ Correct

Spec == Init /\ [][Next]_vars

---------------------------------------------------------------------------
(* main(): the simulation loop *)

VISUALIZATION == FALSE

\* values the two std::normal_distribution objects may return
ProcessNoiseSamples == { FromInt[-4], FromInt[0], R[5, 2] }

MeasurementNoiseSamples == { FromInt[-3], FromInt[0], FromInt[6] }

\* values waitKey() may return
Keys == { 13, 29 }

\* 1. define control signal: 3m forward
control_u == FromInt[3]

\* the incremental mean with the divisor off by one: N read after the
\* increment of simulation_step
running_average_late_N(avg, N, e) ==
    DDiv[DAdd[DMul[avg, DAdd[N, FromInt[1]]], e], DAdd[N, FromInt[2]]]

\* (avg*N + e) / (N+1.0)
running_average(avg, N, e) ==
    DDiv[DAdd[DMul[avg, N], e], DAdd[N, FromInt[1]]]

\* the loop condition with <= for <
while_condition_inclusive == simulation_step <= SimulationLimit

\* while (simulation_step < 100000)
while_condition == simulation_step < SimulationLimit

MainInit ==
    /\ myFilter = kalman_filter_1d(FromInt[5], R[3, 4], FromInt[10],
                                   DMul[FromInt[1], FromInt[10]])
    /\ init_sigma = R[3, 4]
    /\ call = [op |-> "new", arg |-> FromInt[0],
               mu |-> FromInt[5], sigma |-> R[3, 4]]
    /\ npredict = 0
    /\ ncorrect = 0
    /\ pc = "while"
    /\ mu_true = FromInt[5]
    /\ mu_naive_est = FromInt[5]
    /\ z = FromInt[0]
    /\ simulation_step = 0
    /\ error_measurement = FromInt[0]
    /\ error_naive = FromInt[0]
    /\ error_kf = FromInt[0]
    /\ abs_errors = << >>
    /\ executed = 0

EnterLoop ==
    /\ pc = "while"
    /\ while_condition
    /\ pc' = "simulate"
    /\ UNCHANGED filterVars
    /\ UNCHANGED << mu_true, mu_naive_est, z, simulation_step,
                    error_measurement, error_naive, error_kf, abs_errors,
                    executed >>

ExitLoop ==
    /\ pc = "while"
    /\ ~while_condition
    /\ pc' = "done"
    /\ UNCHANGED filterVars
    /\ UNCHANGED << mu_true, mu_naive_est, z, simulation_step,
                    error_measurement, error_naive, error_kf, abs_errors,
                    executed >>

\* steps 2 to 4 of the loop body
Simulate ==
    /\ pc = "simulate"
    /\ \E w \in ProcessNoiseSamples, v \in MeasurementNoiseSamples :
          /\ mu_naive_est' = DAdd[mu_naive_est, control_u]
          /\ mu_true' = DAdd[DAdd[mu_true, control_u], w]
          /\ z' = DAdd[mu_true', v]
    /\ pc' = "predict"
    /\ UNCHANGED filterVars
    /\ UNCHANGED << simulation_step, error_measurement, error_naive,
                    error_kf, abs_errors, executed >>

\* step 5
StepPredict ==
    /\ pc = "predict"
    /\ myFilter' = predict(myFilter, control_u)
    /\ call' = [op |-> "predict", arg |-> control_u,
                mu |-> myFilter.mu, sigma |-> myFilter.sigma]
    /\ npredict' = npredict + 1
    /\ pc' = "correct"
    /\ UNCHANGED << init_sigma, ncorrect >>
    /\ UNCHANGED << mu_true, mu_naive_est, z, simulation_step,
                    error_measurement, error_naive, error_kf, abs_errors,
                    executed >>

\* step 6
StepCorrect ==
    /\ pc = "correct"
    /\ myFilter' = correct_by_measurement(myFilter, z)
    /\ call' = [op |-> "correct", arg |-> z,
                mu |-> myFilter.mu, sigma |-> myFilter.sigma]
    /\ ncorrect' = ncorrect + 1
    /\ pc' = "errors"
    /\ UNCHANGED << init_sigma, npredict >>
    /\ UNCHANGED << mu_true, mu_naive_est, z, simulation_step,
                    error_measurement, error_naive, error_kf, abs_errors,
                    executed >>

\* step 7
UpdateErrors ==
    /\ pc = "errors"
    /\ LET N    == FromInt[simulation_step]
           e_m  == DAbs[DSub[z, mu_true]]
           e_n  == DAbs[DSub[mu_naive_est, mu_true]]
           e_kf == DAbs[DSub[get_current_state_estimate(myFilter), mu_true]]
       IN  /\ error_measurement' = running_average(error_measurement, N, e_m)
           /\ error_naive' = running_average(error_naive, N, e_n)
           /\ error_kf' = running_average(error_kf, N, e_kf)
           /\ abs_errors' = Append(abs_errors, << e_m, e_n, e_kf >>)
    /\ executed' = executed + 1
    /\ pc' = "visualize"
    /\ UNCHANGED filterVars
    /\ UNCHANGED << mu_true, mu_naive_est, z, simulation_step >>

\* steps 8 to 10: the visualization block, compiled in only with
\* VISUALIZATION, leaves the loop on key 29 before the increment; otherwise
\* time goes by
TimeGoesBy ==
    /\ pc = "visualize"
    /\ IF VISUALIZATION
       THEN \E c \in Keys :
               IF c = 29
               THEN /\ pc' = "done"
                    /\ UNCHANGED simulation_step
               ELSE /\ simulation_step' = simulation_step + 1
                    /\ pc' = "while"
       ELSE /\ simulation_step' = simulation_step + 1
            /\ pc' = "while"
    /\ UNCHANGED filterVars
    /\ UNCHANGED << mu_true, mu_naive_est, z, error_measurement, error_naive,
                    error_kf, abs_errors, executed >>

MainNext ==
    \/ EnterLoop
    \/ ExitLoop
    \/ Simulate
    \/ StepPredict
    \/ StepCorrect
    \/ UpdateErrors
    \/ TimeGoesBy

MainSpec == MainInit /\ [][MainNext]_vars

\* main() is a sequential program: it keeps running until it returns
MainLiveSpec == MainInit /\ [][MainNext]_vars /\ WF_vars(MainNext)

---------------------------------------------------------------------------
(* Properties of the filter operations *)

Positive(a) == a.k = "fin" /\ a.n > 0

NonNegative(a) == a.k = "fin" /\ a.n >= 0

IsZero(a) == a.k = "fin" /\ a.n = 0

\* the construction is valid: initial_uncertainty >= 0, process_noise >= 0,
\* measurement_noise > 0
ValidConstruction ==
    /\ NonNegative(init_sigma)
    /\ NonNegative(myFilter.process_noise)
    /\ Positive(myFilter.measurement_noise)

\* the state the last call started from holds finite numbers
FinitePre == IsFinite(call.mu) /\ IsFinite(call.sigma)

\* mn * s.d + s * mn.d, the numerator of measurement_noise + (sigma before
\* the call) over their common denominator
SumNoiseSigma ==
    myFilter.measurement_noise.n * call.sigma.d
        + call.sigma.n * myFilter.measurement_noise.d

\* C1: from every state of finite numbers with process_noise >= 0 and
\* measurement_noise > 0, predict(u) leaves estimate = old estimate + u and
\* uncertainty = old uncertainty + process_noise, both finite numbers (it
\* has no failure mode).
C1_PredictAddsControlAndNoise ==
    ( /\ call.op = "predict"
      /\ FinitePre
      /\ NonNegative(myFilter.process_noise)
      /\ Positive(myFilter.measurement_noise) )
    => /\ IsFinite(myFilter.mu)
       /\ IsFinite(myFilter.sigma)
       /\ myFilter.mu.n * (call.mu.d * call.arg.d)
             = (call.mu.n * call.arg.d + call.arg.n * call.mu.d)
                  * myFilter.mu.d
       /\ myFilter.sigma.n * (call.sigma.d * myFilter.process_noise.d)
             = (call.sigma.n * myFilter.process_noise.d
                  + myFilter.process_noise.n * call.sigma.d)
                  * myFilter.sigma.d

C1_Witness ==
    /\ call.op = "predict"
    /\ FinitePre
    /\ Positive(myFilter.process_noise)
    /\ Positive(myFilter.measurement_noise)
    /\ ~IsZero(call.arg)
    /\ ncorrect >= 1

\* C2: from every state with uncertainty > 0 and measurement_noise > 0,
\* correct(z) leaves estimate = (mn*old_estimate + old_uncertainty*z) /
\* (mn + old_uncertainty) and uncertainty = 1/(1/mn + 1/old_uncertainty)
\* (= mn*old_uncertainty / (mn + old_uncertainty)), both from the
\* uncertainty before the call; when mn = old_uncertainty the new estimate
\* is the arithmetic mean of old_estimate and z.
C2_CorrectFusesByPrecision ==
    ( /\ call.op = "correct"
      /\ IsFinite(call.mu)
      /\ Positive(call.sigma)
      /\ Positive(myFilter.measurement_noise) )
    => /\ IsFinite(myFilter.mu)
       /\ IsFinite(myFilter.sigma)
       /\ myFilter.mu.n * call.mu.d * call.arg.d * SumNoiseSigma
             = ( myFilter.measurement_noise.n * call.mu.n
                     * call.sigma.d * call.arg.d
                 + call.sigma.n * call.arg.n
                     * myFilter.measurement_noise.d * call.mu.d )
               * myFilter.mu.d
       /\ myFilter.sigma.n * SumNoiseSigma
             = myFilter.measurement_noise.n * call.sigma.n * myFilter.sigma.d
       /\ (myFilter.measurement_noise = call.sigma)
            => 2 * myFilter.mu.n * call.mu.d * call.arg.d
                  = (call.mu.n * call.arg.d + call.arg.n * call.mu.d)
                       * myFilter.mu.d

C2_Witness ==
    /\ call.op = "correct"
    /\ IsFinite(call.mu)
    /\ Positive(call.sigma)
    /\ myFilter.measurement_noise = call.sigma
    /\ call.arg # call.mu
    /\ npredict >= 1

\* C3: from every state with uncertainty > 0 and measurement_noise > 0,
\* correct(z) does not increase the uncertainty; outside the zero-noise case,
\* which these conditions exclude, it makes it strictly smaller.
C3_CorrectShrinksUncertainty ==
    ( /\ call.op = "correct"
      /\ Positive(call.sigma)
      /\ Positive(myFilter.measurement_noise) )
    => /\ IsFinite(myFilter.sigma)
       /\ myFilter.sigma.n * call.sigma.d <= call.sigma.n * myFilter.sigma.d
       /\ myFilter.sigma.n * call.sigma.d < call.sigma.n * myFilter.sigma.d

C3_Witness ==
    /\ call.op = "correct"
    /\ Positive(call.sigma)
    /\ Positive(myFilter.measurement_noise)
    /\ ncorrect >= 2
    /\ npredict >= 1

\* C4: a filter constructed with initial uncertainty > 0, process_noise >= 0
\* and measurement_noise > 0 has uncertainty > 0 in every state that predict
\* and correct calls, in any order, lead to.
C4_UncertaintyStaysPositive ==
    ( /\ Positive(init_sigma)
      /\ NonNegative(myFilter.process_noise)
      /\ Positive(myFilter.measurement_noise) )
    => Positive(myFilter.sigma)

C4_Witness ==
    /\ Positive(init_sigma)
    /\ IsZero(myFilter.process_noise)
    /\ Positive(myFilter.measurement_noise)
    /\ call.op = "correct"
    /\ ncorrect >= 2
    /\ npredict >= 1

\* C5: constructing the filter with measurement_noise <= 0 fails, so no
\* filter with measurement_noise <= 0 ever runs correct.
C5_NoCorrectWithBadMeasurementNoise ==
    call.op = "correct" => Positive(myFilter.measurement_noise)

\* C6: correct is guarded against uncertainty = 0: it never performs its
\* update (the division by the uncertainty) from a state with uncertainty 0.
\* Stated for the validly constructed filters, which is enough to refute it.
C6_CorrectGuardsZeroUncertainty ==
    (ValidConstruction /\ call.op = "correct") => ~IsZero(call.sigma)

\* C7 as stated: for every validly constructed filter, once predict has been
\* called at least once, uncertainty > 0 at every later call of correct.
C7_PredictEstablishesPrecondition ==
    (ValidConstruction /\ npredict >= 1 /\ call.op = "correct")
    => Positive(call.sigma)

\* C7 as amended: for every validly constructed filter with process_noise > 0
\* or initial_uncertainty > 0, once predict has been called at least once,
\* uncertainty > 0 at every later call of correct.
C7_PredictEstablishesPreconditionAmended ==
    ( /\ ValidConstruction
      /\ Positive(myFilter.process_noise) \/ Positive(init_sigma)
      /\ npredict >= 1
      /\ call.op = "correct" )
    => Positive(call.sigma)

C7_Witness ==
    /\ ValidConstruction
    /\ IsZero(init_sigma)
    /\ Positive(myFilter.process_noise)
    /\ npredict >= 1
    /\ call.op = "correct"


---------------------------------------------------------------------------
(* Properties of the simulation loop *)

\* sum of the i-th absolute error of the first k steps
RECURSIVE SumErrors(_, _)
SumErrors(i, k) ==
    IF k = 0 THEN FromInt[0] ELSE DAdd[SumErrors(i, k - 1), abs_errors[k][i]]

\* avg = (sum of the i-th absolute error over all steps so far) / (steps)
IsDirectMean(avg, i) ==
    LET k == Len(abs_errors)
    IN  /\ IsFinite(avg)
        /\ avg = DDiv[SumErrors(i, k), FromInt[k]]

\* C8: before the first step the three running errors are 0, and after k >= 1
\* steps each of them equals the arithmetic mean of the k absolute errors of
\* its series.
C8_RunningErrorIsMean ==
    /\ Len(abs_errors) = 0
         => /\ IsZero(error_measurement)
            /\ IsZero(error_naive)
            /\ IsZero(error_kf)
    /\ Len(abs_errors) >= 1
         => /\ IsDirectMean(error_measurement, 1)
            /\ IsDirectMean(error_naive, 2)
            /\ IsDirectMean(error_kf, 3)

C8_Witness ==
    /\ Len(abs_errors) >= 2
    /\ abs_errors[1][1] # abs_errors[2][1]
    /\ abs_errors[1][2] # abs_errors[2][2]
    /\ abs_errors[1][3] # abs_errors[2][3]
    /\ Positive(error_kf)
    /\ pc = "done"

\* C9: the loop terminates; the step count at completion is the number of
\* executions of the per-step algorithm and is the loop limit; every
\* executed step made one predict call followed by one correct call.
C9_LoopRunsToLimit ==
    /\ <>(pc = "done")
    /\ [](pc = "done"
            => /\ simulation_step = SimulationLimit
               /\ executed = simulation_step
               /\ npredict = executed
               /\ ncorrect = executed)
    /\ [](/\ npredict = IF pc \in {"correct", "errors"}
                        THEN executed + 1 ELSE executed
          /\ ncorrect = IF pc = "errors" THEN executed + 1 ELSE executed)

C9_Witness ==
    /\ pc = "done"
    /\ simulation_step = SimulationLimit
    /\ executed >= 2
    /\ call.op = "correct"

===========================================================================
